---- MODULE Spec2Model ----
(***************************************************************************)
(* niebla-158: the rolling compact-filter-header chain (src/src/cfheaders.rs) *)
(* and the sync orchestrator Niebla158::run_to_tip (src/src/engine.rs),     *)
(* run against a Store, a HeaderSource, a FilterSource and WalletHooks      *)
(* whose answers are chosen by the environment.                             *)
(*                                                                          *)
(* One step of the engine is one collaborator call (one .await) together    *)
(* with the synchronous code that follows it up to the next call.  A run    *)
(* can fail at any call and can be cancelled between any two calls.         *)
(***************************************************************************)
EXTENDS Integers, Sequences, FiniteSets, TLC

\* ------------------------------------------------------------------------
\* Bounds of the exploration
\* ------------------------------------------------------------------------

\* Greatest height the header source reports and the filter source serves.
MaxHeight == 3

\* Longest cfheaders batch the filter source returns.
MaxBatchLen == 2

\* u32::MAX, scaled down: heights are u32 in the source; the arithmetic below
\* keeps the saturating / wrapping behaviour at this limit.
U32_MAX == 15

\* CFHEADERS_BATCH (2_000 in the source), scaled down so that the window
\* boundary next + CFHEADERS_BATCH - 1 falls inside the explored heights.
CFHEADERS_BATCH == 2

\* ------------------------------------------------------------------------
\* Values
\* ------------------------------------------------------------------------

Heights == 0..MaxHeight

\* Per-block filter digests F_n: two distinct 32-byte values.
Digests == {0, 1}

\* BlockHash::all_zeros()
AllZeros == 0

\* Option<(u32, BlockHash)>: None is <<>>, Some((h, x)) is <<h, x>>.
None == <<>>

Some(h, x) == <<h, x>>

\* HASH256(rolling || fh) (sha256d over the 64-byte concatenation): an
\* injective pairing whose value is never the all-zero hash.
Hash256(rolling, fh) == rolling * Cardinality(Digests) + fh + 1

\* u32::saturating_add(1)
SatAdd1(x) == IF x >= U32_MAX THEN U32_MAX ELSE x + 1

\* a + b on u32 without overflow checks (release build): wraps.
WrapAdd(a, b) == (a + b) % (U32_MAX + 1)

\* a + b leaves the u32 range (a build with overflow checks panics here).
Overflows(a, b) == a + b > U32_MAX

\* Ord::max, the larger of the two.
Min_larger(a, b) == IF a <= b THEN b ELSE a

Min(a, b) == IF a <= b THEN a ELSE b

\* ------------------------------------------------------------------------
\* CfHeaderChain (src/src/cfheaders.rs)
\* ------------------------------------------------------------------------

\* new_from_store that ignores the persisted tip.
new_from_store_fresh(prev) == [tip_height |-> 0, tip_hash |-> AllZeros]

\* new_from_store that keeps the persisted hash of a tip at height 0.
new_from_store_keep_hash(prev) ==
    IF prev # None
    THEN [tip_height |-> prev[1], tip_hash |-> prev[2]]
    ELSE [tip_height |-> 0, tip_hash |-> AllZeros]

\* CfHeaderChain::new_from_store
new_from_store(prev) ==
    IF prev # None /\ prev[1] > 0
    THEN [tip_height |-> prev[1], tip_hash |-> prev[2]]
    ELSE [tip_height |-> 0, tip_hash |-> AllZeros]

\* The checkpoint lookup comparing against the height after h.
FindCheckpoint_off_by_one(cps, h) ==
    IF \E k \in 1..Len(cps) : cps[k][1] = h + 1
    THEN CHOOSE k \in 1..Len(cps) : cps[k][1] = h + 1
    ELSE 0

\* checkpoints.iter().find(|(hh, _)| *hh == h): index of the first entry at
\* height h, 0 when there is none.
FindCheckpoint(cps, h) ==
    IF \E k \in 1..Len(cps) : cps[k][1] = h
    THEN CHOOSE k \in 1..Len(cps) :
            /\ cps[k][1] = h
            /\ \A j \in 1..(k - 1) : cps[j][1] # h
    ELSE 0

\* The for loop of apply_batch hashing every header onto the tip hash the
\* call started with (rolling never advanced).
RECURSIVE FoldFrom_stale(_, _, _, _, _, _)
FoldFrom_stale(st, start_height, headers, cps, checked, i) ==
    IF i > Len(headers)
    THEN [st EXCEPT !.err = "ok"]
    ELSE IF checked /\ Overflows(start_height, i - 1)
    THEN [st EXCEPT !.err = "panic"]
    ELSE
      LET h == WrapAdd(start_height, i - 1)
          cur == Hash256(st.rolling, headers[i])
          k == FindCheckpoint(cps, h)
      IN  IF k # 0 /\ cur # cps[k][2]
          THEN [st EXCEPT !.err = "checkpoint_mismatch", !.err_h = h]
          ELSE FoldFrom_stale([st EXCEPT !.tip_height = h,
                                         !.tip_hash = cur,
                                         !.folded = Append(st.folded, h)],
                              start_height, headers, cps, checked, i + 1)

\* The for loop of apply_batch from index i (1-based) on.  st carries the
\* chain, the rolling hash and the heights folded so far.  checked says
\* whether the build panics on integer overflow.
RECURSIVE FoldFrom(_, _, _, _, _, _)
FoldFrom(st, start_height, headers, cps, checked, i) ==
    IF i > Len(headers)
    THEN [st EXCEPT !.err = "ok"]
    ELSE IF checked /\ Overflows(start_height, i - 1)
    THEN [st EXCEPT !.err = "panic"]
    ELSE
      LET h == WrapAdd(start_height, i - 1)
          cur == Hash256(st.rolling, headers[i])
          k == FindCheckpoint(cps, h)
      IN  IF k # 0 /\ cur # cps[k][2]
          THEN [st EXCEPT !.err = "checkpoint_mismatch", !.err_h = h]
          ELSE FoldFrom([st EXCEPT !.rolling = cur,
                                   !.tip_height = h,
                                   !.tip_hash = cur,
                                   !.folded = Append(st.folded, h)],
                        start_height, headers, cps, checked, i + 1)

\* apply_batch without the contiguity check: any start height is folded.
apply_batch_any_start(chain, start_height, headers, cps, checked) ==
    FoldFrom([tip_height |-> chain.tip_height,
              tip_hash |-> chain.tip_hash,
              rolling |-> chain.tip_hash,
              folded |-> <<>>,
              err |-> "ok",
              err_h |-> 0],
             start_height, headers, cps, checked, 1)

\* apply_batch that returns Ok for an empty batch before it looks at the
\* start height.
apply_batch_empty_first(chain, start_height, headers, cps, checked) ==
    LET st0 == [tip_height |-> chain.tip_height,
                tip_hash |-> chain.tip_hash,
                rolling |-> chain.tip_hash,
                folded |-> <<>>,
                err |-> "ok",
                err_h |-> 0]
    IN  IF headers = <<>>
        THEN st0
        ELSE IF start_height # SatAdd1(chain.tip_height)
        THEN [st0 EXCEPT !.err = "batch_start_mismatch"]
        ELSE FoldFrom(st0, start_height, headers, cps, checked, 1)

\* apply_batch hashing the batch onto the all-zero hash instead of the tip
\* hash.
apply_batch_zero_rolling(chain, start_height, headers, cps, checked) ==
    LET st0 == [tip_height |-> chain.tip_height,
                tip_hash |-> chain.tip_hash,
                rolling |-> AllZeros,
                folded |-> <<>>,
                err |-> "ok",
                err_h |-> 0]
    IN  IF start_height # SatAdd1(chain.tip_height)
        THEN [st0 EXCEPT !.err = "batch_start_mismatch"]
        ELSE FoldFrom(st0, start_height, headers, cps, checked, 1)

\* apply_batch working on a copy of the chain that it stores back only when
\* every header passed: a checkpoint mismatch leaves the pre-call state.
apply_batch_all_or_nothing(chain, start_height, headers, cps, checked) ==
    LET st0 == [tip_height |-> chain.tip_height,
                tip_hash |-> chain.tip_hash,
                rolling |-> chain.tip_hash,
                folded |-> <<>>,
                err |-> "ok",
                err_h |-> 0]
        r == FoldFrom(st0, start_height, headers, cps, checked, 1)
    IN  IF start_height # SatAdd1(chain.tip_height)
        THEN [st0 EXCEPT !.err = "batch_start_mismatch"]
        ELSE IF r.err = "checkpoint_mismatch"
        THEN [st0 EXCEPT !.err = r.err, !.err_h = r.err_h]
        ELSE r

\* CfHeaderChain::apply_batch.  The result carries the chain state on
\* return (tip_height, tip_hash), the outcome err, the height an error
\* names, and the heights the loop advanced the tip through.
apply_batch(chain, start_height, headers, cps, checked) ==
    LET expected == SatAdd1(chain.tip_height)
        st0 == [tip_height |-> chain.tip_height,
                tip_hash |-> chain.tip_hash,
                rolling |-> chain.tip_hash,
                folded |-> <<>>,
                err |-> "ok",
                err_h |-> 0]
    IN  IF start_height # expected
        THEN [st0 EXCEPT !.err = "batch_start_mismatch"]
        ELSE FoldFrom(st0, start_height, headers, cps, checked, 1)

ChainOf(r) == [tip_height |-> r.tip_height, tip_hash |-> r.tip_hash]

\* ------------------------------------------------------------------------
\* State
\* ------------------------------------------------------------------------

VARIABLES
    store,          \* Store: [cf_tip, last_scanned], what is persisted
    checkpoints,    \* Niebla158.checkpoints
    pc,             \* the collaborator call run_to_tip makes next
    cfchain,        \* run_to_tip: cfchain
    chain_tip,      \* run_to_tip: chain_tip
    next,           \* run_to_tip: next
    stop_h,         \* run_to_tip: stop_h
    batch,          \* run_to_tip: batch
    last_scanned,   \* run_to_tip: last_scanned
    end_h,          \* run_to_tip: end_h
    watch_empty,    \* run_to_tip: watch.is_empty()
    h,              \* run_to_tip: h of the scan loop
    block_hash,     \* run_to_tip: block_hash
    result,         \* how the run (or the apply_batch call) ended
    run,            \* history of the current run
    iter,           \* history of the current scan-loop iteration
    last_ok_tip,    \* history: tip_height() of the last run if it returned Ok, else -1
    fed,            \* history: digests folded into cfchain since height 0
    fed_store,      \* history: digests folded into the persisted cf_tip
    unacked,        \* history: heights delivered to on_block_match, above last_scanned
    verified,       \* history: heights persisted after their filter test (and delivery)
    skipped,        \* history: heights an empty-watchlist run passed over
    folded,         \* history: heights apply_batch advanced the tip through
    table,          \* SqliteStore: the rows of table state, key -> value
    reader,         \* SqliteStore: a load_cf_tip between its two kv_get
    reply,          \* SqliteStore: the last call that returned, and its value
    wrote           \* history: what the setters of SqliteStore were last given

\* The database file of a SqliteStore and the calls on it.
sqlite == <<table, reader, reply, wrote>>

\* The engine, its Store and its history.
engine == <<store, checkpoints, pc, cfchain, chain_tip, next, stop_h, batch,
            last_scanned, end_h, watch_empty, h, block_hash, result, run,
            iter, last_ok_tip, fed, fed_store, unacked, verified, skipped,
            folded>>

vars == <<engine, sqlite>>

locals == <<cfchain, chain_tip, next, stop_h, batch, last_scanned, end_h,
            watch_empty, h, block_hash>>

\* Option<(u32, BlockHash)> height, an absent cf_tip counted as 0.
CfTipHeight(st) == IF st.cf_tip = None THEN 0 ELSE st.cf_tip[1]

\* MemStore::new / a fresh SqliteStore: no cf_tip, last_scanned 0.
EmptyStore == [cf_tip |-> None, last_scanned |-> 0]

\* HeaderSource::hash_at_height: the header chain the source follows has one
\* block hash per height.
hash_at_height(ht) == <<"block", ht>>

\* The block of the header chain with hash bh: its header and two
\* transactions, in block order.
BlockOf(bh) ==
    [header |-> bh, txdata |-> << <<"tx", bh[2], 1>>, <<"tx", bh[2], 2>> >>]

\* Consensus encoding of a block, as FilterSource::get_block returns it: the
\* header, the transaction count, then the transactions.
Serialize(block) == <<block.header, Len(block.txdata)>> \o block.txdata

\* consensus::encode::deserialize reading the transactions last to first.
deserialize_reversed(raw) ==
    [header |-> raw[1],
     txdata |-> [i \in 1..raw[2] |-> raw[2 + raw[2] + 1 - i]]]

\* consensus::encode::deserialize::<Block>(&raw_block)
deserialize(raw) ==
    [header |-> raw[1], txdata |-> SubSeq(raw, 3, 2 + raw[2])]

\* Batches FilterSource::get_cfheaders may answer: any start height, any
\* digests, reaching no further than MaxHeight.
BatchHeaders == UNION {[1..n -> Digests] : n \in 0..MaxBatchLen}

Batches ==
    {[start_height |-> s, headers |-> hs] :
        s \in 0..(MaxHeight + 1), hs \in BatchHeaders}

\* H_n of the all-zero-digest chain: a checkpoint value some batches meet
\* and others miss.
RECURSIVE ZeroChainHash(_)
ZeroChainHash(n) == IF n = 0 THEN AllZeros ELSE Hash256(ZeroChainHash(n - 1), 0)

\* Checkpoint lists with_checkpoints may install: none, or one checkpoint.
CheckpointLists ==
    {<<>>} \cup {<< <<ch, ZeroChainHash(ch)>> >> : ch \in 1..MaxHeight}

NoBatch == [start_height |-> 0, headers |-> <<>>]

\* The keys of table state.
Keys == {"cf_tip_height", "cf_tip_hash", "last_scanned", "birth_height"}

\* CREATE TABLE IF NOT EXISTS state on a new file: no rows.
EmptyTable == [k \in Keys |-> None]

\* No load_cf_tip is under way.
IdleReader == [at |-> "idle", h |-> None, before |-> None, saves |-> 0]

\* anyhow::Result of a SqliteStore call.
Ok(v) == [ok |-> TRUE, val |-> v]

Failed == [ok |-> FALSE, val |-> None]

NoReply == [op |-> "none", ret |-> Ok(None), before |-> None, saves |-> 0]

NoWrites == [cf_tip |-> None, last_scanned |-> None, birth_height |-> None]

NoResult == [kind |-> "none", h |-> 0, at |-> "none"]

\* The value of a block-hash local that holds no hash.
NoHash == <<"none", 0>>

NoDelivery == [height |-> 0, block_hash |-> NoHash, txs |-> <<>>]

NoIter == [tested |-> FALSE, hit |-> FALSE, matched |-> FALSE,
           txs |-> <<>>, got |-> NoDelivery]

NewRun(st, ok_tip, una) ==
    [store0 |-> st, prev_ok_tip |-> ok_tip, unacked0 |-> una,
     n_cfheaders |-> 0, n_cfilter |-> 0, n_block |-> 0, n_match |-> 0,
     tested |-> {}, persisted |-> {}, redelivered |-> {},
     unsaved |-> <<>>, rx |-> NoBatch, tip |-> -1, end_tip |-> -1,
     watch |-> "unknown", calls |-> {}, matched |-> {}, stalled |-> FALSE]

\* The history r of a run after the run made the call c.
Called(r, c) == [r EXCEPT !.calls = @ \cup {c}]

NoRun == NewRun(EmptyStore, -1, {})

ResetLocals ==
    /\ cfchain' = [tip_height |-> 0, tip_hash |-> AllZeros]
    /\ chain_tip' = 0
    /\ next' = 0
    /\ stop_h' = 0
    /\ batch' = NoBatch
    /\ last_scanned' = 0
    /\ end_h' = 0
    /\ watch_empty' = FALSE
    /\ h' = 0
    /\ block_hash' = NoHash

\* run_to_tip returns (Ok or Err) or stops: its locals are dropped.
Finish(kind, at_h) ==
    /\ result' = [kind |-> kind, h |-> at_h, at |-> pc]
    /\ pc' = "done"
    /\ ResetLocals

\* No run_to_tip has been entered: its locals (but cfchain and batch) and the
\* history are blank.
InitBlank ==
    /\ chain_tip = 0
    /\ next = 0
    /\ stop_h = 0
    /\ last_scanned = 0
    /\ end_h = 0
    /\ watch_empty = FALSE
    /\ h = 0
    /\ block_hash = NoHash
    /\ result = NoResult
    /\ run = NoRun
    /\ iter = NoIter
    /\ last_ok_tip = -1
    /\ fed = <<>>
    /\ fed_store = <<>>
    /\ unacked = {}
    /\ verified = {}
    /\ skipped = {}
    /\ folded = <<>>
    /\ table = EmptyTable
    /\ reader = IdleReader
    /\ reply = NoReply
    /\ wrote = NoWrites

\* Everything but pc after construction: an empty Store, no run yet.
InitRest ==
    /\ store = EmptyStore
    /\ checkpoints = <<>>
    /\ cfchain = [tip_height |-> 0, tip_hash |-> AllZeros]
    /\ batch = NoBatch
    /\ InitBlank

Init == pc = "idle" /\ InitRest

\* ------------------------------------------------------------------------
\* Niebla158::run_to_tip (src/src/engine.rs)
\* ------------------------------------------------------------------------

\* Niebla158::new(...).with_checkpoints(v), and run_to_tip is entered.
Start ==
    /\ pc = "idle"
    /\ \E v \in CheckpointLists : checkpoints' = v
    /\ pc' = "load_cf_tip"
    /\ run' = NewRun(store, last_ok_tip, unacked)
    /\ UNCHANGED <<store, locals, result, iter, last_ok_tip, fed, fed_store,
                   unacked, verified, skipped, folded>>
    /\ UNCHANGED sqlite

\* The caller has the outcome of run_to_tip; the engine is at rest again.
Return ==
    /\ pc = "done"
    /\ pc' = "idle"
    /\ last_ok_tip' = IF result.kind = "ok" THEN run.tip ELSE -1
    /\ result' = NoResult
    /\ run' = NoRun
    /\ iter' = NoIter
    /\ checkpoints' = <<>>
    /\ fed' = <<>>
    /\ UNCHANGED <<store, locals, fed_store, unacked, verified, skipped,
                   folded>>
    /\ UNCHANGED sqlite

\* The Phase-A loop test stopping one height short of the header tip.
PhaseAStep_strict(nxt, tip) ==
    IF nxt < tip THEN "hash_at_stop" ELSE "get_last_scanned"

\* The Phase-A loop test letting next run one height past the header tip.
PhaseAStep_inclusive(nxt, tip) ==
    IF nxt <= tip + 1 THEN "hash_at_stop" ELSE "get_last_scanned"

\* The Phase-A loop that repeats whatever the batch held.
PhaseAStep_forever(nxt, tip) == "hash_at_stop"

\* Where the Phase-A loop goes for a given next: its body or Phase B.
PhaseAStep(nxt, tip) == IF nxt <= tip THEN "hash_at_stop" ELSE "get_last_scanned"

\* load_cf_tip followed by a comparison of the loaded tip with the
\* checkpoint installed at its height.
LoadCfTip_verified ==
    /\ pc = "load_cf_tip"
    /\ run' = Called(run, "load_cf_tip")
    /\ LET c == new_from_store(store.cf_tip)
           k == FindCheckpoint(checkpoints, c.tip_height)
       IN  IF k # 0 /\ checkpoints[k][2] # c.tip_hash
           THEN Finish("checkpoint_mismatch", c.tip_height) /\ UNCHANGED fed
           ELSE /\ cfchain' = c
                /\ fed' = fed_store
                /\ pc' = "tip_height"
                /\ UNCHANGED <<chain_tip, next, stop_h, batch, last_scanned,
                               end_h, watch_empty, h, block_hash, result>>
    /\ UNCHANGED <<store, checkpoints, iter, last_ok_tip, fed_store, unacked,
                   verified, skipped, folded>>
    /\ UNCHANGED sqlite

\* store.load_cf_tip(), CfHeaderChain::new_from_store
LoadCfTip ==
    /\ pc = "load_cf_tip"
    /\ cfchain' = new_from_store(store.cf_tip)
    /\ fed' = fed_store
    /\ pc' = "tip_height"
    /\ run' = Called(run, "load_cf_tip")
    /\ UNCHANGED <<store, checkpoints, chain_tip, next, stop_h, batch,
                   last_scanned, end_h, watch_empty, h, block_hash, result,
                   iter, last_ok_tip, fed_store, unacked, verified, skipped,
                   folded>>
    /\ UNCHANGED sqlite

\* headers.tip_height(), next = tip_height.saturating_add(1), loop test
TipHeight ==
    /\ pc = "tip_height"
    /\ \E t \in Heights :
         /\ chain_tip' = t
         /\ run' = [Called(run, "tip_height") EXCEPT !.tip = t]
         /\ pc' = PhaseAStep(SatAdd1(cfchain.tip_height), t)
    /\ next' = SatAdd1(cfchain.tip_height)
    /\ UNCHANGED <<store, checkpoints, cfchain, stop_h, batch, last_scanned,
                   end_h, watch_empty, h, block_hash, result, iter,
                   last_ok_tip, fed, fed_store, unacked, verified, skipped,
                   folded>>
    /\ UNCHANGED sqlite

\* stop_h = (next + CFHEADERS_BATCH - 1).min(chain_tip), headers.hash_at_height(stop_h)
HashAtStop ==
    /\ pc = "hash_at_stop"
    /\ \E checked \in BOOLEAN :
         IF checked /\ Overflows(next, CFHEADERS_BATCH)
         THEN Finish("panic", 0) /\ UNCHANGED run
         ELSE \* (next + CFHEADERS_BATCH - 1) modulo 2^32
              /\ stop_h' = Min(WrapAdd(next, CFHEADERS_BATCH + U32_MAX), chain_tip)
              /\ pc' = "get_cfheaders"
              /\ run' = Called(run, "hash_at_stop")
              /\ UNCHANGED <<cfchain, chain_tip, next, batch, last_scanned,
                             end_h, watch_empty, h, block_hash, result>>
    /\ UNCHANGED <<store, checkpoints, iter, last_ok_tip, fed, fed_store,
                   unacked, verified, skipped, folded>>
    /\ UNCHANGED sqlite

\* The get_cfheaders calls of a run are counted up to this many.
CallCap == MaxHeight + 1

\* The set of heights in a sequence.
Range(sq) == {sq[i] : i \in 1..Len(sq)}

\* source.get_cfheaders(next, stop_hash), cfchain.apply_batch(batch.start_height, ...)
GetCfHeaders ==
    /\ pc = "get_cfheaders"
    /\ \E b \in Batches, checked \in BOOLEAN :
         LET r == apply_batch(cfchain, b.start_height, b.headers, checkpoints,
                              checked)
         IN  /\ b.start_height + Len(b.headers) <= MaxHeight + 1
             /\ run' = [Called(run, "get_cfheaders") EXCEPT
                                   !.n_cfheaders = Min(@ + 1, CallCap),
                                   !.rx = b,
                                   !.stalled = @ \/ b.headers = <<>>,
                                   !.unsaved = IF r.folded = <<>> THEN @
                                               ELSE Append(@, Range(r.folded))]
             /\ fed' = fed \o SubSeq(b.headers, 1, Len(r.folded))
             /\ IF r.err = "ok"
                THEN /\ cfchain' = ChainOf(r)
                     /\ batch' = b
                     /\ pc' = "save_cf_tip"
                     /\ UNCHANGED <<chain_tip, next, stop_h, last_scanned,
                                    end_h, watch_empty, h, block_hash, result>>
                ELSE Finish(r.err, r.err_h)
    /\ UNCHANGED <<store, checkpoints, iter, last_ok_tip, fed_store, unacked,
                   verified, skipped, folded>>
    /\ UNCHANGED sqlite

\* The Phase-A loop without its save_cf_tip: the tip stays in memory only.
SaveCfTip_no_write ==
    /\ pc = "save_cf_tip"
    /\ next' = SatAdd1(cfchain.tip_height)
    /\ pc' = PhaseAStep(SatAdd1(cfchain.tip_height), chain_tip)
    /\ batch' = NoBatch
    /\ stop_h' = 0
    /\ run' = [run EXCEPT !.rx = NoBatch]
    /\ UNCHANGED <<store, checkpoints, cfchain, chain_tip, last_scanned, end_h,
                   watch_empty, h, block_hash, result, iter, last_ok_tip,
                   fed, fed_store, unacked, verified, skipped, folded>>
    /\ UNCHANGED sqlite

\* save_cf_tip persisting the tip height with the all-zero hash.
SaveCfTip_zero_hash ==
    /\ pc = "save_cf_tip"
    /\ store' = [store EXCEPT !.cf_tip = Some(cfchain.tip_height, AllZeros)]
    /\ fed_store' = fed
    /\ next' = SatAdd1(cfchain.tip_height)
    /\ pc' = PhaseAStep(SatAdd1(cfchain.tip_height), chain_tip)
    /\ batch' = NoBatch
    /\ stop_h' = 0
    /\ run' = [Called(run, "save_cf_tip") EXCEPT !.unsaved = <<>>,
                                                  !.rx = NoBatch]
    /\ UNCHANGED <<checkpoints, cfchain, chain_tip, last_scanned, end_h,
                   watch_empty, h, block_hash, result, iter, last_ok_tip,
                   fed, unacked, verified, skipped, folded>>
    /\ UNCHANGED sqlite

\* store.save_cf_tip(cfchain.tip_height, cfchain.tip_hash), end of the loop
\* body (batch and stop_h go out of scope),
\* next = tip_height.saturating_add(1), loop test
SaveCfTip ==
    /\ pc = "save_cf_tip"
    /\ store' = [store EXCEPT !.cf_tip = Some(cfchain.tip_height, cfchain.tip_hash)]
    /\ fed_store' = fed
    /\ next' = SatAdd1(cfchain.tip_height)
    /\ pc' = PhaseAStep(SatAdd1(cfchain.tip_height), chain_tip)
    /\ batch' = NoBatch
    /\ stop_h' = 0
    /\ run' = [Called(run, "save_cf_tip") EXCEPT !.unsaved = <<>>,
                                                  !.rx = NoBatch]
    /\ UNCHANGED <<checkpoints, cfchain, chain_tip, last_scanned, end_h,
                   watch_empty, h, block_hash, result, iter, last_ok_tip,
                   fed, unacked, verified, skipped, folded>>
    /\ UNCHANGED sqlite

\* Phase B entering the scan loop right after get_last_scanned, without
\* asking for the watchlist.
GetLastScanned_no_watchlist ==
    /\ pc = "get_last_scanned"
    /\ last_scanned' = store.last_scanned
    /\ end_h' = cfchain.tip_height
    /\ run' = [Called(run, "get_last_scanned") EXCEPT
                          !.end_tip = cfchain.tip_height]
    /\ IF store.last_scanned + 1 <= cfchain.tip_height
       THEN /\ h' = store.last_scanned + 1
            /\ pc' = "hash_at_height"
            /\ UNCHANGED <<cfchain, chain_tip, next, stop_h, batch,
                           watch_empty, block_hash, result>>
       ELSE /\ h' = h
            /\ pc' = "watchlist"
            /\ UNCHANGED <<cfchain, chain_tip, next, stop_h, batch,
                           watch_empty, block_hash, result>>
    /\ UNCHANGED <<store, checkpoints, iter, last_ok_tip,
                   fed, fed_store, unacked, verified, skipped, folded>>
    /\ UNCHANGED sqlite

\* store.get_last_scanned(), end_h = cfchain.tip_height
GetLastScanned ==
    /\ pc = "get_last_scanned"
    /\ last_scanned' = store.last_scanned
    /\ end_h' = cfchain.tip_height
    /\ pc' = "watchlist"
    /\ run' = [Called(run, "get_last_scanned") EXCEPT
                          !.end_tip = cfchain.tip_height]
    /\ UNCHANGED <<store, checkpoints, cfchain, chain_tip, next, stop_h, batch,
                   watch_empty, h, block_hash, result, iter, last_ok_tip,
                   fed, fed_store, unacked, verified, skipped, folded>>
    /\ UNCHANGED sqlite

\* The range start of the scan loop, last_scanned + 1, two heights on.
ScanFrom_skip(ls) == WrapAdd(ls, 2)

\* (last_scanned + 1) of the scan range, without overflow checks.
ScanFrom(ls) == WrapAdd(ls, 1)

\* hooks.watchlist(), watch.is_empty(), entry of for h in (last_scanned + 1)..=end_h
Watchlist ==
    /\ pc = "watchlist"
    /\ \E e \in BOOLEAN, checked \in BOOLEAN :
         /\ run' = [Called(run, "watchlist") EXCEPT
                               !.watch = IF e THEN "empty" ELSE "nonempty"]
         /\ IF e
            THEN /\ watch_empty' = TRUE
                 /\ pc' = "set_last_scanned_end"
                 /\ UNCHANGED <<cfchain, chain_tip, next, stop_h, batch,
                                last_scanned, end_h, h, block_hash, result>>
            ELSE IF checked /\ Overflows(last_scanned, 1)
            THEN Finish("panic", 0)
            ELSE IF ScanFrom(last_scanned) <= end_h
            THEN /\ watch_empty' = FALSE
                 /\ h' = ScanFrom(last_scanned)
                 /\ pc' = "hash_at_height"
                 /\ UNCHANGED <<cfchain, chain_tip, next, stop_h, batch,
                                last_scanned, end_h, block_hash, result>>
            ELSE Finish("ok", 0)
    /\ UNCHANGED <<store, checkpoints, iter, last_ok_tip, fed, fed_store,
                   unacked, verified, skipped, folded>>
    /\ UNCHANGED sqlite

\* The empty-watchlist exit persisting chain_tip instead of end_h.
SetLastScannedEnd_chain_tip ==
    /\ pc = "set_last_scanned_end"
    /\ store' = [store EXCEPT !.last_scanned = chain_tip]
    /\ skipped' = (skipped \cup (IF watch_empty
                                   THEN (store.last_scanned + 1)..chain_tip
                                   ELSE {})) \cap (1..chain_tip)
    /\ verified' = verified \cap (1..chain_tip)
    /\ unacked' = {k \in unacked : k > chain_tip}
    /\ run' = Called(run, "set_last_scanned_end")
    /\ Finish("ok", 0)
    /\ UNCHANGED <<checkpoints, iter, last_ok_tip, fed, fed_store, folded>>
    /\ UNCHANGED sqlite

\* Empty watchlist: store.set_last_scanned(end_h), return Ok(())
SetLastScannedEnd ==
    /\ pc = "set_last_scanned_end"
    /\ store' = [store EXCEPT !.last_scanned = end_h]
    /\ skipped' = (skipped \cup (IF watch_empty
                                   THEN (store.last_scanned + 1)..end_h
                                   ELSE {})) \cap (1..end_h)
    /\ verified' = verified \cap (1..end_h)
    /\ unacked' = {k \in unacked : k > end_h}
    /\ run' = Called(run, "set_last_scanned_end")
    /\ Finish("ok", 0)
    /\ UNCHANGED <<checkpoints, iter, last_ok_tip, fed, fed_store, folded>>
    /\ UNCHANGED sqlite

\* headers.hash_at_height(h)
HashAtHeight ==
    /\ pc = "hash_at_height"
    /\ block_hash' = hash_at_height(h)
    /\ pc' = "get_cfilter"
    /\ iter' = NoIter
    /\ run' = Called(run, "hash_at_height")
    /\ UNCHANGED <<store, checkpoints, cfchain, chain_tip, next, stop_h, batch,
                   last_scanned, end_h, watch_empty, h, result,
                   last_ok_tip, fed, fed_store, unacked, verified, skipped,
                   folded>>
    /\ UNCHANGED sqlite

\* The scan loop persisting h right after the filter test, hit or not.
AfterMatch_persist_first(hit) == "set_last_scanned"

\* if hit { get_block, on_block_match } and then set_last_scanned
AfterMatch(hit) == IF hit THEN "get_block" ELSE "set_last_scanned"

\* source.get_cfilter(block_hash), filter_matches_any(...), if hit
GetCfilter ==
    /\ pc = "get_cfilter"
    /\ \E hit \in BOOLEAN :
         /\ iter' = [iter EXCEPT !.tested = TRUE, !.hit = hit]
         /\ pc' = AfterMatch(hit)
    /\ run' = [Called(run, "get_cfilter") EXCEPT !.n_cfilter = @ + 1,
                                                  !.tested = @ \cup {h}]
    /\ UNCHANGED <<store, checkpoints, locals, result, last_ok_tip, fed,
                   fed_store, unacked, verified, skipped, folded>>
    /\ UNCHANGED sqlite

\* source.get_block(block_hash), consensus::encode::deserialize(&raw_block)
GetBlock ==
    /\ pc = "get_block"
    /\ run' = [Called(run, "get_block") EXCEPT !.n_block = @ + 1]
    /\ iter' = [iter EXCEPT
                  !.txs = deserialize(Serialize(BlockOf(block_hash))).txdata]
    /\ pc' = "on_block_match"
    /\ UNCHANGED <<store, checkpoints, locals, result, last_ok_tip, fed,
                   fed_store, unacked, verified, skipped, folded>>
    /\ UNCHANGED sqlite

\* hooks.on_block_match(h, block_hash, txs)
OnBlockMatch ==
    /\ pc = "on_block_match"
    /\ run' = [Called(run, "on_block_match") EXCEPT
                          !.n_match = @ + 1,
                          !.matched = @ \cup {h},
                          !.redelivered = @ \cup ({h} \cap run.unacked0)]
    /\ iter' = [iter EXCEPT !.matched = TRUE,
                            !.got = [height |-> h, block_hash |-> block_hash,
                                     txs |-> iter.txs]]
    /\ unacked' = unacked \cup {h}
    /\ pc' = "set_last_scanned"
    /\ UNCHANGED <<store, checkpoints, locals, result, last_ok_tip, fed,
                   fed_store, verified, skipped, folded>>
    /\ UNCHANGED sqlite

\* The scan loop persisting last_scanned once, after its last height.
SetLastScanned_at_end ==
    /\ pc = "set_last_scanned"
    /\ IF h < end_h
       THEN /\ h' = h + 1
            /\ pc' = "hash_at_height"
            /\ UNCHANGED <<store, run, verified, skipped, unacked, cfchain,
                           chain_tip, next, stop_h, batch, last_scanned, end_h,
                           watch_empty, block_hash, result>>
       ELSE /\ store' = [store EXCEPT !.last_scanned = h]
            /\ run' = [run EXCEPT !.persisted = @ \cup {h}]
            /\ verified' = (verified \cap (1..h))
                             \cup (IF iter.tested /\ (iter.hit => iter.matched)
                                   THEN {h} ELSE {})
            /\ skipped' = skipped \cap (1..(h - 1))
            /\ unacked' = {k \in unacked : k > h}
            /\ Finish("ok", 0)
    /\ UNCHANGED <<checkpoints, iter, last_ok_tip, fed, fed_store, folded>>
    /\ UNCHANGED sqlite

\* The scan loop stepping its range by two heights.
SetLastScanned_stride ==
    /\ pc = "set_last_scanned"
    /\ store' = [store EXCEPT !.last_scanned = h]
    /\ run' = [Called(run, "set_last_scanned") EXCEPT !.persisted = @ \cup {h}]
    /\ verified' = (verified \cap (1..h))
                     \cup (IF iter.tested /\ (iter.hit => iter.matched)
                           THEN {h} ELSE {})
    /\ skipped' = skipped \cap (1..(h - 1))
    /\ unacked' = {k \in unacked : k > h}
    /\ IF h + 1 < end_h
       THEN /\ h' = h + 2
            /\ pc' = "hash_at_height"
            /\ UNCHANGED <<cfchain, chain_tip, next, stop_h, batch,
                           last_scanned, end_h, watch_empty, block_hash, result>>
       ELSE Finish("ok", 0)
    /\ UNCHANGED <<checkpoints, iter, last_ok_tip, fed, fed_store, folded>>
    /\ UNCHANGED sqlite

\* store.set_last_scanned(h), next h of the range or return Ok(())
SetLastScanned ==
    /\ pc = "set_last_scanned"
    /\ store' = [store EXCEPT !.last_scanned = h]
    /\ run' = [Called(run, "set_last_scanned") EXCEPT !.persisted = @ \cup {h}]
    /\ verified' = (verified \cap (1..h))
                     \cup (IF iter.tested /\ (iter.hit => iter.matched)
                           THEN {h} ELSE {})
    /\ skipped' = skipped \cap (1..(h - 1))
    /\ unacked' = {k \in unacked : k > h}
    /\ IF h < end_h
       THEN /\ h' = h + 1
            /\ pc' = "hash_at_height"
            /\ UNCHANGED <<cfchain, chain_tip, next, stop_h, batch,
                           last_scanned, end_h, watch_empty, block_hash, result>>
       ELSE Finish("ok", 0)
    /\ UNCHANGED <<checkpoints, iter, last_ok_tip, fed, fed_store, folded>>
    /\ UNCHANGED sqlite

\* The calls of run_to_tip, each of which can return Err.
CallPcs ==
    {"load_cf_tip", "tip_height", "hash_at_stop", "get_cfheaders",
     "save_cf_tip", "get_last_scanned", "watchlist", "set_last_scanned_end",
     "hash_at_height", "get_cfilter", "get_block", "on_block_match",
     "set_last_scanned"}

ScanPcs ==
    {"hash_at_height", "get_cfilter", "get_block", "on_block_match",
     "set_last_scanned"}

\* A failing call that also rolls the Store back to what the run found.
CallFails_rollback ==
    /\ pc \in CallPcs
    /\ run' = Called(run, pc)
    /\ store' = run.store0
    /\ Finish("collaborator_err", IF pc \in ScanPcs THEN h ELSE 0)
    /\ UNCHANGED <<checkpoints, iter, last_ok_tip, fed, fed_store,
                   unacked, verified, skipped, folded>>
    /\ UNCHANGED sqlite

\* The pending collaborator call (or the matcher, or the block decoding
\* after it) returns Err: the ? operator returns it from run_to_tip.
CallFails ==
    /\ pc \in CallPcs
    /\ run' = Called(run, pc)
    /\ Finish("collaborator_err", IF pc \in ScanPcs THEN h ELSE 0)
    /\ UNCHANGED <<store, checkpoints, iter, last_ok_tip, fed, fed_store,
                   unacked, verified, skipped, folded>>
    /\ UNCHANGED sqlite

\* The host drops the run_to_tip future between two collaborator calls, or
\* the process stops there.
Cancel ==
    /\ pc \in CallPcs
    /\ Finish("cancelled", IF pc \in ScanPcs THEN h ELSE 0)
    /\ UNCHANGED <<store, checkpoints, run, iter, last_ok_tip, fed, fed_store,
                   unacked, verified, skipped, folded>>
    /\ UNCHANGED sqlite

Next ==
    \/ Start
    \/ Return
    \/ LoadCfTip
    \/ TipHeight
    \/ HashAtStop
    \/ GetCfHeaders
    \/ SaveCfTip
    \/ GetLastScanned
    \/ Watchlist
    \/ SetLastScannedEnd
    \/ HashAtHeight
    \/ GetCfilter
    \/ GetBlock
    \/ OnBlockMatch
    \/ SetLastScanned
    \/ CallFails
    \/ Cancel

Spec == Init /\ [][Next]_vars

\* get_cfheaders answering with the start height it was asked for.
GetCfHeadersAsked == GetCfHeaders /\ run'.rx.start_height = next

\* A step of run_to_tip none of whose calls fails.
RunStep ==
    \/ LoadCfTip
    \/ TipHeight
    \/ HashAtStop
    \/ GetCfHeadersAsked
    \/ SaveCfTip
    \/ GetLastScanned
    \/ Watchlist
    \/ SetLastScannedEnd
    \/ HashAtHeight
    \/ GetCfilter
    \/ GetBlock
    \/ OnBlockMatch
    \/ SetLastScanned

\* A Store as earlier runs with a non-empty watchlist leave it: the cf_tip
\* of k all-zero digests (absent for k = 0), scanned up to ls <= k.
InitLive ==
    /\ pc = "idle"
    /\ \E k \in Heights, ls \in Heights :
         /\ ls <= k
         /\ store = [cf_tip |-> IF k = 0 THEN None
                                ELSE Some(k, ZeroChainHash(k)),
                     last_scanned |-> ls]
         /\ fed_store = [i \in 1..k |-> 0]
         /\ verified = 1..ls
    /\ checkpoints = <<>>
    /\ cfchain = [tip_height |-> 0, tip_hash |-> AllZeros]
    /\ batch = NoBatch
    /\ chain_tip = 0
    /\ next = 0
    /\ stop_h = 0
    /\ last_scanned = 0
    /\ end_h = 0
    /\ watch_empty = FALSE
    /\ h = 0
    /\ block_hash = NoHash
    /\ result = NoResult
    /\ run = NoRun
    /\ iter = NoIter
    /\ last_ok_tip = -1
    /\ fed = <<>>
    /\ unacked = {}
    /\ skipped = {}
    /\ folded = <<>>
    /\ table = EmptyTable
    /\ reader = IdleReader
    /\ reply = NoReply
    /\ wrote = NoWrites

NextLive == Start \/ RunStep

\* One run on such a Store, its collaborators all answering, the source
\* with batches that start where asked: the future is polled until it
\* returns, so a step that stays possible is taken (every step of a run
\* moves pc).
SpecLive == InitLive /\ [][NextLive]_vars /\ WF_pc(RunStep)

TypeOK ==
    /\ pc \in CallPcs \cup {"idle", "done"}
    /\ store.last_scanned \in 0..MaxHeight
    /\ CfTipHeight(store) \in 0..MaxHeight

\* ------------------------------------------------------------------------
\* CfHeaderChain on its own: a chain built from an absent tip and fed
\* arbitrary apply_batch calls
\* ------------------------------------------------------------------------

InitChain == pc = "chain" /\ InitRest

\* One call cfchain.apply_batch(b.start_height, &b.headers, &cps); result
\* keeps what it returned, cfchain the state it left.
ApplyBatchCall ==
    /\ pc = "chain"
    /\ \E b \in Batches, cps \in CheckpointLists, checked \in BOOLEAN :
         LET r == apply_batch(cfchain, b.start_height, b.headers, cps, checked)
         IN  /\ b.start_height + Len(b.headers) <= MaxHeight + 1
             /\ cfchain' = ChainOf(r)
             /\ batch' = b
             /\ checkpoints' = cps
             /\ result' = [kind |-> r.err, h |-> r.err_h, at |-> "apply_batch"]
             /\ folded' = folded \o r.folded
             /\ fed' = fed \o SubSeq(b.headers, 1, Len(r.folded))
    /\ UNCHANGED <<store, pc, chain_tip, next, stop_h, last_scanned, end_h,
                   watch_empty, h, block_hash, run, iter, last_ok_tip,
                   fed_store, unacked, verified, skipped>>
    /\ UNCHANGED sqlite

NextChain == ApplyBatchCall

SpecChain == InitChain /\ [][NextChain]_vars

\* ------------------------------------------------------------------------
\* One run of digests fed to a chain in pieces: batch holds the whole run
\* (what a single apply_batch call would be given), cfchain the chain that
\* is fed it as consecutive non-empty batches.
\* ------------------------------------------------------------------------

\* Persisted tips the chain is built from: absent, or height 1.
SplitTips == {None, Some(1, ZeroChainHash(1)), Some(1, Hash256(AllZeros, 1))}

SplitHeaders == UNION {[1..n -> Digests] : n \in 1..MaxHeight}

InitSplit ==
    /\ pc = "split"
    /\ \E prev \in SplitTips, hs \in SplitHeaders, cps \in CheckpointLists :
         /\ new_from_store(prev).tip_height + Len(hs) <= MaxHeight
         /\ store = [cf_tip |-> prev, last_scanned |-> 0]
         /\ cfchain = new_from_store(prev)
         /\ batch = [start_height |-> SatAdd1(new_from_store(prev).tip_height),
                     headers |-> hs]
         /\ checkpoints = cps
    /\ InitBlank

\* The next n headers of the run, applied as one batch at the height that
\* follows the ones applied so far; the caller stops at the first error.
ApplySplit ==
    /\ pc = "split"
    /\ result.kind \in {"none", "ok"}
    /\ \E n \in 1..(Len(batch.headers) - Len(fed)), checked \in BOOLEAN :
         LET r == apply_batch(cfchain, batch.start_height + Len(fed),
                              SubSeq(batch.headers, Len(fed) + 1, Len(fed) + n),
                              checkpoints, checked)
         IN  /\ cfchain' = ChainOf(r)
             /\ result' = [kind |-> r.err, h |-> r.err_h, at |-> "apply_batch"]
             /\ folded' = folded \o r.folded
             /\ fed' = fed \o SubSeq(batch.headers, Len(fed) + 1,
                                      Len(fed) + Len(r.folded))
             /\ run' = [run EXCEPT !.unsaved = Append(@, Range(r.folded))]
    /\ UNCHANGED <<store, checkpoints, pc, chain_tip, next, stop_h, batch,
                   last_scanned, end_h, watch_empty, h, block_hash, iter,
                   last_ok_tip, fed_store, unacked, verified, skipped>>
    /\ UNCHANGED sqlite

NextSplit == ApplySplit

SpecSplit == InitSplit /\ [][NextSplit]_vars

\* ------------------------------------------------------------------------
\* CfHeaderChain built from any persisted tip, heights at the u32 limit
\* included, and fed arbitrary apply_batch calls
\* ------------------------------------------------------------------------

\* Heights of persisted tips and of batch starts: the low end and the top
\* of the u32 range.
StoredHeights == {0, 1, U32_MAX - 1, U32_MAX}

StoredHashes == {AllZeros, Hash256(AllZeros, 0), Hash256(AllZeros, 1)}

StoredTips ==
    {None} \cup {Some(ht, x) : ht \in StoredHeights, x \in StoredHashes}

EdgeBatches ==
    {[start_height |-> s, headers |-> hs] :
        s \in StoredHeights, hs \in BatchHeaders}

\* Checkpoint lists for a chain at the top of the range: none, or one at
\* u32::MAX.
EdgeCheckpointLists == {<<>>, << <<U32_MAX, Hash256(AllZeros, 0)>> >>}

InitStored ==
    /\ pc = "new"
    /\ \E prev \in StoredTips : store = [cf_tip |-> prev, last_scanned |-> 0]
    /\ checkpoints = <<>>
    /\ cfchain = [tip_height |-> 0, tip_hash |-> AllZeros]
    /\ batch = NoBatch
    /\ InitBlank

\* CfHeaderChain::new_from_store(store.load_cf_tip())
NewFromStoreCall ==
    /\ pc = "new"
    /\ cfchain' = new_from_store(store.cf_tip)
    /\ pc' = "edge"
    /\ UNCHANGED <<store, checkpoints, chain_tip, next, stop_h, batch,
                   last_scanned, end_h, watch_empty, h, block_hash, result, run,
                   iter, last_ok_tip, fed, fed_store, unacked, verified,
                   skipped, folded>>
    /\ UNCHANGED sqlite

\* One call cfchain.apply_batch(b.start_height, &b.headers, &cps) in a build
\* with or without overflow checks; at most MaxHeight digests are offered
\* in all.
ApplyBatchEdge ==
    /\ pc = "edge"
    /\ \E b \in EdgeBatches, cps \in EdgeCheckpointLists, checked \in BOOLEAN :
         LET r == apply_batch(cfchain, b.start_height, b.headers, cps, checked)
         IN  /\ Len(fed) + Len(b.headers) <= MaxHeight
             /\ cfchain' = ChainOf(r)
             /\ batch' = b
             /\ checkpoints' = cps
             /\ result' = [kind |-> r.err, h |-> r.err_h, at |-> "apply_batch"]
             /\ folded' = folded \o r.folded
             /\ fed' = fed \o SubSeq(b.headers, 1, Len(r.folded))
    /\ UNCHANGED <<store, pc, chain_tip, next, stop_h, last_scanned, end_h,
                   watch_empty, h, block_hash, run, iter, last_ok_tip,
                   fed_store, unacked, verified, skipped>>
    /\ UNCHANGED sqlite

NextStored == NewFromStoreCall \/ ApplyBatchEdge

SpecStored == InitStored /\ [][NextStored]_vars

\* ------------------------------------------------------------------------
\* SqliteStore (src/src/store/sqlite_store.rs): one database file, the calls
\* of the Store trait on it, and a save_cf_tip that may run while a
\* load_cf_tip is between its two statements
\* ------------------------------------------------------------------------

\* u32::to_string: the decimal digits, most significant first.
RECURSIVE to_string(_)
to_string(n) == IF n < 10 THEN <<n>> ELSE Append(to_string(n \div 10), n % 10)

\* The number a string of decimal digits denotes.
RECURSIVE DecimalValue(_)
DecimalValue(s) ==
    IF s = <<>> THEN 0
    ELSE 10 * DecimalValue(SubSeq(s, 1, Len(s) - 1)) + s[Len(s)]

IsDecimal(s) == s # <<>> /\ \A i \in 1..Len(s) : s[i] \in 0..9

\* str::parse::<u32>: <<n>> for Ok(n), None for Err.
parse_u32(s) ==
    IF IsDecimal(s) /\ DecimalValue(s) <= U32_MAX THEN <<DecimalValue(s)>>
    ELSE None

Reverse(s) == [i \in 1..Len(s) |-> s[Len(s) + 1 - i]]

\* BlockHash::to_string: the digits of the hash, last byte first.
hash_to_string(x) == Reverse(to_string(x))

\* BlockHash::from_str reading the digits first byte first.
from_str_forward(s) == IF IsDecimal(s) THEN <<DecimalValue(s)>> ELSE None

\* BlockHash::from_str: <<x>> for Ok(x), None for Err.
from_str(s) == IF IsDecimal(s) THEN <<DecimalValue(Reverse(s))>> ELSE None

\* SqliteStore::kv_get: the row of key, if any.
kv_get(tbl, key) == tbl[key]

\* INSERT OR IGNORE: a row that exists keeps its value.
kv_set_ignore(tbl, key, val) ==
    IF tbl[key] = None THEN [tbl EXCEPT ![key] = <<val>>] ELSE tbl

\* SqliteStore::kv_set: INSERT ... ON CONFLICT(key) DO UPDATE.
kv_set(tbl, key, val) == [tbl EXCEPT ![key] = <<val>>]

\* load_cf_tip: match (h, hh) on the two rows it read.
load_cf_tip(hrow, hhrow) ==
    IF hrow # None /\ hhrow # None
    THEN LET height == parse_u32(hrow[1])
             hash == from_str(hhrow[1])
         IN  IF height = None \/ hash = None THEN Failed
             ELSE Ok(Some(height[1], hash[1]))
    ELSE Ok(None)

\* get_last_scanned: .unwrap_or("0").parse::<u32>().unwrap_or(0)
get_last_scanned(row) ==
    LET n == parse_u32(IF row = None THEN to_string(0) ELSE row[1])
    IN  Ok(IF n = None THEN 0 ELSE n[1])

\* get_birth_height without the filter on the parsed height.
get_birth_height_unfiltered(row) ==
    IF row = None THEN Ok(None)
    ELSE LET n == parse_u32(row[1])
         IN  Ok(<<IF n = None THEN 0 ELSE n[1]>>)

\* get_birth_height: .map(|s| s.parse::<u32>().unwrap_or(0)).filter(|&n| n > 0)
get_birth_height(row) ==
    IF row = None THEN Ok(None)
    ELSE LET n == parse_u32(row[1])
             parsed == IF n = None THEN 0 ELSE n[1]
         IN  Ok(IF parsed > 0 THEN <<parsed>> ELSE None)

\* Heights the setters are given: zero, one digit, the top of the range.
SqlHeights == {0, 7, U32_MAX}

\* Hashes save_cf_tip is given, of one and of two digits.
SqlHashes == {ZeroChainHash(0), ZeroChainHash(2), ZeroChainHash(4)}

\* SqliteStore::new(path) on a new file.
InitSqlite == pc = "sqlite" /\ InitRest

\* A call that is one statement has returned.
Returned(op, ret) == [op |-> op, ret |-> ret, before |-> None, saves |-> 0]

\* save_cf_tip(height, cfheader): both rows in one transaction, committed.
Sqlite_save_cf_tip ==
    /\ pc = "sqlite"
    /\ \E height \in SqlHeights, cfheader \in SqlHashes :
         /\ table' = kv_set(kv_set(table, "cf_tip_height", to_string(height)),
                            "cf_tip_hash", hash_to_string(cfheader))
         /\ wrote' = [wrote EXCEPT !.cf_tip = Some(height, cfheader)]
    /\ reply' = Returned("save_cf_tip", Ok(None))
    /\ reader' = IF reader.at = "idle" THEN reader
                 ELSE [reader EXCEPT !.saves = Min(@ + 1, 2)]
    /\ UNCHANGED engine

\* load_cf_tip: let h = kv_get(&conn, "cf_tip_height"), a statement of its own.
Sqlite_load_cf_tip_height ==
    /\ pc = "sqlite"
    /\ reader.at = "idle"
    /\ reader' = [at |-> "cf_tip_hash", h |-> kv_get(table, "cf_tip_height"),
                  before |-> wrote.cf_tip, saves |-> 0]
    /\ UNCHANGED <<engine, table, reply, wrote>>

\* load_cf_tip: let hh = kv_get(&conn, "cf_tip_hash"), the match, the return.
Sqlite_load_cf_tip_hash ==
    /\ pc = "sqlite"
    /\ reader.at = "cf_tip_hash"
    /\ reply' = [op |-> "load_cf_tip",
                 ret |-> load_cf_tip(reader.h, kv_get(table, "cf_tip_hash")),
                 before |-> reader.before, saves |-> reader.saves]
    /\ reader' = IdleReader
    /\ UNCHANGED <<engine, table, wrote>>

Sqlite_get_last_scanned ==
    /\ pc = "sqlite"
    /\ reply' = Returned("get_last_scanned",
                         get_last_scanned(kv_get(table, "last_scanned")))
    /\ UNCHANGED <<engine, table, reader, wrote>>

Sqlite_set_last_scanned ==
    /\ pc = "sqlite"
    /\ \E height \in SqlHeights :
         /\ table' = kv_set(table, "last_scanned", to_string(height))
         /\ wrote' = [wrote EXCEPT !.last_scanned = <<height>>]
    /\ reply' = Returned("set_last_scanned", Ok(None))
    /\ UNCHANGED <<engine, reader>>

Sqlite_get_birth_height ==
    /\ pc = "sqlite"
    /\ reply' = Returned("get_birth_height",
                         get_birth_height(kv_get(table, "birth_height")))
    /\ UNCHANGED <<engine, table, reader, wrote>>

Sqlite_set_birth_height ==
    /\ pc = "sqlite"
    /\ \E height \in SqlHeights :
         /\ table' = kv_set(table, "birth_height", to_string(height))
         /\ wrote' = [wrote EXCEPT !.birth_height = <<height>>]
    /\ reply' = Returned("set_birth_height", Ok(None))
    /\ UNCHANGED <<engine, reader>>

NextSqlite ==
    \/ Sqlite_save_cf_tip
    \/ Sqlite_load_cf_tip_height
    \/ Sqlite_load_cf_tip_hash
    \/ Sqlite_get_last_scanned
    \/ Sqlite_set_last_scanned
    \/ Sqlite_get_birth_height
    \/ Sqlite_set_birth_height

SpecSqlite == InitSqlite /\ [][NextSqlite]_vars

\* ------------------------------------------------------------------------
\* Properties
\* ------------------------------------------------------------------------

\* H_n from H_0 = h0 by the recurrence H_k = HASH256(H_{k-1} || F_k) over
\* the digests F_1..F_n.
RECURSIVE RollingHash(_, _)
RollingHash(h0, digests) ==
    IF digests = <<>>
    THEN h0
    ELSE Hash256(RollingHash(h0, SubSeq(digests, 1, Len(digests) - 1)),
                 digests[Len(digests)])

\* The pcs at which run_to_tip holds a chain loaded from the Store.
LoadedPcs == CallPcs \ {"load_cf_tip"}

\* The calls of one scan-loop iteration before its set_last_scanned.
TestPcs == {"get_cfilter", "get_block", "on_block_match"}

\* C1: in every run and for every height h scanned in Phase B,
\* set_last_scanned(h) is invoked only after the filter at h was tested and,
\* if it hit, after on_block_match(h, ...) returned ok; when get_cfilter, the
\* matcher, get_block, the block decoding or on_block_match fails at h,
\* set_last_scanned(h) is not invoked in that run and the persisted
\* last_scanned stays below h.
C1_MatchBeforePersist ==
    /\ [][\A k \in run'.persisted \ run.persisted :
            /\ pc = "set_last_scanned"
            /\ k = h
            /\ store'.last_scanned = k
            /\ iter.tested
            /\ iter.hit => iter.matched]_vars
    /\ []((/\ pc = "done"
           /\ result.kind = "collaborator_err"
           /\ result.at \in TestPcs)
          => (/\ result.h \notin run.persisted
              /\ store.last_scanned < result.h))

\* C1 witness: a run persisted a height it had delivered, then on_block_match
\* failed at a later height.
C1_Witness ==
    /\ pc = "done"
    /\ result.kind = "collaborator_err"
    /\ result.at = "on_block_match"
    /\ result.h >= 2
    /\ run.n_match >= 2
    /\ run.persisted # {}

\* C2: when run_to_tip returned ok and is called again on the same Store with
\* tip_height() unchanged, the second run calls neither get_cfheaders,
\* get_cfilter, get_block nor on_block_match, returns ok (unless a
\* collaborator fails or the run is cancelled) and leaves the persisted
\* cf_tip and last_scanned as they were, whatever the watchlist.
C2_SecondRunNoOp ==
    (/\ pc \in LoadedPcs \cup {"done"}
     /\ run.prev_ok_tip # -1
     /\ run.tip = run.prev_ok_tip)
    => (/\ run.n_cfheaders = 0
        /\ run.n_cfilter = 0
        /\ run.n_block = 0
        /\ run.n_match = 0
        /\ store = run.store0
        /\ pc \in {"get_last_scanned", "watchlist", "set_last_scanned_end", "done"}
        /\ pc = "done" => result.kind \in {"ok", "collaborator_err", "cancelled"})

\* C2 witness: a second run over an unchanged tip returned ok with a
\* non-empty watchlist on a Store that had been scanned to height 2 or more.
C2_Witness ==
    /\ pc = "done"
    /\ result.kind = "ok"
    /\ run.prev_ok_tip # -1
    /\ run.tip = run.prev_ok_tip
    /\ run.watch = "nonempty"
    /\ store.last_scanned >= 2

\* Some header of batch b, applied on top of chain, gives a rolling hash that
\* differs from the checkpoint installed at its height.
MismatchHeights(chain, b, cps) ==
    {b.start_height + i - 1 : i \in
        {j \in 1..Len(b.headers) :
            \E k \in 1..Len(cps) :
                /\ cps[k][1] = b.start_height + j - 1
                /\ cps[k][2] # RollingHash(chain.tip_hash, SubSeq(b.headers, 1, j))}}

MinOf(S) == CHOOSE x \in S : \A y \in S : x <= y

\* C3: when a checkpoint (h, hash) is installed and the rolling hash computed
\* at h while applying a batch differs from hash, apply_batch returns the
\* checkpoint-mismatch error naming h, run_to_tip returns an error without
\* save_cf_tip for that batch, and the persisted cf_tip stays the one
\* persisted before the batch, its height below h.
C3_CheckpointMismatch ==
    /\ [][(/\ pc = "get_cfheaders"
           /\ run'.rx # run.rx
           /\ run'.rx.start_height = cfchain.tip_height + 1
           /\ MismatchHeights(cfchain, run'.rx, checkpoints) # {})
          => (/\ pc' = "done"
              /\ result'.kind = "checkpoint_mismatch"
              /\ result'.h = MinOf(MismatchHeights(cfchain, run'.rx, checkpoints))
              /\ store' = store)]_vars
    /\ []((pc = "done" /\ result.kind = "checkpoint_mismatch")
          => CfTipHeight(store) < result.h)

\* C3 witness: a batch failed its checkpoint at height 3 after height 2 of
\* the same batch was folded in memory; the Store still holds height 1.
C3_Witness ==
    /\ pc = "done"
    /\ result.kind = "checkpoint_mismatch"
    /\ result.h = 3
    /\ run.rx.start_height = 2
    /\ CfTipHeight(store) = 1

\* C4: from a Store with last_scanned <= cf_tip.height (absent cf_tip counted
\* as height 0), every Store state reached through any sequence of
\* run_to_tip calls, failed and cancelled ones included, has
\* last_scanned <= cf_tip.height.
C4_ScannedBelowCfTip == store.last_scanned <= CfTipHeight(store)

\* C4 witness: a run was cancelled in the scan loop with last_scanned
\* advanced but still below the persisted cf_tip height.
C4_Witness ==
    /\ pc = "done"
    /\ result.kind = "cancelled"
    /\ result.at \in ScanPcs
    /\ store.last_scanned >= 1
    /\ store.last_scanned < CfTipHeight(store)

C6_Recurrence ==
    /\ store.cf_tip # None
         => store.cf_tip = Some(Len(fed_store), RollingHash(AllZeros, fed_store))
    /\ store.cf_tip = None => fed_store = <<>>
    /\ pc \in LoadedPcs
         => cfchain = [tip_height |-> Len(fed),
                       tip_hash |-> RollingHash(AllZeros, fed)]

\* C6 witness: a persisted cf_tip at the greatest height, folded from
\* digests that are not all equal.
C6_Witness ==
    /\ store.cf_tip # None
    /\ Len(fed_store) = MaxHeight
    /\ \E i, j \in 1..Len(fed_store) : fed_store[i] # fed_store[j]

\* C7: apply_batch with non-empty headers and start_height # tip_height + 1
\* (start_height = 0 on a fresh chain included) returns the batch-start
\* mismatch error and leaves (tip_height, tip_hash) unchanged; so the heights
\* folded into a chain built from the absent tip are exactly 1..tip_height,
\* each once and in ascending order.
C7_Contiguity ==
    /\ [][(/\ pc = "chain"
           /\ batch'.headers # <<>>
           /\ batch'.start_height # cfchain.tip_height + 1)
          => (/\ result'.kind = "batch_start_mismatch"
              /\ cfchain' = cfchain
              /\ folded' = folded)]_vars
    /\ [](pc = "chain"
          => (/\ Len(folded) = cfchain.tip_height
              /\ \A i \in 1..Len(folded) : folded[i] = i))

\* C7 witness: after two heights were folded, a non-empty batch with a wrong
\* start height was rejected.
C7_Witness ==
    /\ pc = "chain"
    /\ result.kind = "batch_start_mismatch"
    /\ batch.headers # <<>>
    /\ cfchain.tip_height >= 2

\* C8 as stated: apply_batch with empty headers returns ok and leaves
\* (tip_height, tip_hash) unchanged for every start_height.
C8_EmptyBatchAlwaysOk ==
    [][(pc = "chain" /\ batch'.headers = <<>>)
       => (result'.kind = "ok" /\ cfchain' = cfchain)]_vars

\* C8 amended: apply_batch with empty headers leaves (tip_height, tip_hash)
\* unchanged for every start_height; it returns ok when start_height is
\* tip_height.saturating_add(1) and the batch-start mismatch error for every
\* other start_height.
C8_EmptyBatch ==
    [][(pc = "chain" /\ batch'.headers = <<>>)
       => (/\ cfchain' = cfchain
           /\ folded' = folded
           /\ result'.kind = IF batch'.start_height = SatAdd1(cfchain.tip_height)
                             THEN "ok" ELSE "batch_start_mismatch")]_vars

\* C8 witness: an empty batch whose start height is not the next one was
\* answered with the mismatch error on a chain that has advanced.
C8_Witness ==
    /\ pc = "chain"
    /\ batch.headers = <<>>
    /\ batch.start_height # cfchain.tip_height + 1
    /\ result.kind = "batch_start_mismatch"
    /\ cfchain.tip_height >= 1

\* C9: when watchlist() returns an empty list and run_to_tip returns ok, the
\* persisted last_scanned is the chain tip height reached at the end of
\* Phase A, and get_cfilter, get_block and on_block_match were not invoked
\* in that run.
C9_EmptyWatchlistFastForward ==
    (pc = "done" /\ result.kind = "ok" /\ run.watch = "empty")
    => (/\ store.last_scanned = run.end_tip
        /\ run.n_cfilter = 0
        /\ run.n_block = 0
        /\ run.n_match = 0)

\* C9 witness: an empty-watchlist run that fetched cfheaders returned ok with
\* last_scanned moved up to height 2 or more, above the header tip it read.
C9_Witness ==
    /\ pc = "done"
    /\ result.kind = "ok"
    /\ run.watch = "empty"
    /\ run.n_cfheaders >= 1
    /\ store.last_scanned >= 2
    /\ store.last_scanned > run.tip
    /\ run.store0.last_scanned < store.last_scanned

C11_ScanOrder ==
    /\ [][run'.n_cfilter > run.n_cfilter
          => (/\ pc = "get_cfilter"
              /\ run.watch = "nonempty"
              /\ h = last_scanned + 1 + run.n_cfilter
              /\ h \notin run.tested
              /\ h <= end_h
              /\ run'.tested = run.tested \cup {h}
              /\ run'.n_cfilter = run.n_cfilter + 1)]_vars
    /\ [][run'.n_match > run.n_match
          => (/\ pc = "on_block_match"
              /\ \A k \in run.matched : k < h
              /\ run'.matched = run.matched \cup {h}
              /\ run'.n_match = run.n_match + 1)]_vars
    /\ [](/\ run.tested = (run.store0.last_scanned + 1)
                             ..(run.store0.last_scanned + run.n_cfilter)
          /\ run.matched \subseteq run.tested
          /\ Cardinality(run.matched) = run.n_match
          /\ (pc = "done" /\ result.kind = "ok" /\ run.watch = "nonempty")
               => run.tested = (run.store0.last_scanned + 1)..run.end_tip)

\* C11 witness: a run that started above height 0 returned ok after it
\* requested two or more filters and delivered two or more blocks.
C11_Witness ==
    /\ pc = "done"
    /\ result.kind = "ok"
    /\ run.watch = "nonempty"
    /\ run.store0.last_scanned >= 1
    /\ run.n_cfilter >= 2
    /\ Cardinality(run.matched) >= 2

\* The pcs of Phase B: from get_last_scanned to the last set_last_scanned.
PhaseBPcs ==
    {"get_last_scanned", "watchlist", "set_last_scanned_end"} \cup ScanPcs

\* C12: in a run with a non-empty watchlist, for every scanned height h: if
\* the filter at h matches, get_block and on_block_match are each invoked
\* once (as far as the run gets), on_block_match receiving h, the hash
\* hash_at_height(h) returned and the decoded block's transactions in block
\* order; if it does not match, neither is invoked for h.  When the run
\* returns ok, last_scanned is the Phase-A end height and the persisted
\* cf_tip is the in-memory chain tip (an absent cf_tip being the chain at
\* height 0).
C12_HitFlow ==
    /\ [](pc = "set_last_scanned"
          => (/\ iter.tested
              /\ IF iter.hit
                 THEN /\ iter.matched
                      /\ h \in run.matched
                      /\ iter.got =
                           [height |-> h,
                            block_hash |-> hash_at_height(h),
                            txs |-> BlockOf(hash_at_height(h)).txdata]
                 ELSE /\ ~iter.matched
                      /\ h \notin run.matched
                      /\ iter.txs = <<>>
                      /\ iter.got = NoDelivery))
    /\ [][run'.n_block > run.n_block
          => (/\ pc = "get_block"
              /\ iter.hit
              /\ iter.txs = <<>>
              /\ run'.n_block = run.n_block + 1
              /\ run.n_block = run.n_match)]_vars
    /\ [][run'.n_match > run.n_match
          => (/\ pc = "on_block_match"
              /\ iter.hit
              /\ ~iter.matched
              /\ run'.n_match = run.n_match + 1
              /\ run.n_block = run.n_match + 1)]_vars
    /\ [](pc \in PhaseBPcs => new_from_store(store.cf_tip) = cfchain)
    /\ []((pc = "done" /\ result.kind = "ok")
          => (/\ store.last_scanned = run.end_tip
              /\ CfTipHeight(store) = run.end_tip
              /\ run.n_block = run.n_match))

\* C12 witness: after a height whose filter did not match, the filter of the
\* next height matched and its block was delivered.
C12_Witness ==
    /\ pc = "set_last_scanned"
    /\ iter.hit
    /\ iter.got.height = h
    /\ run.matched = {h}
    /\ Cardinality(run.tested) >= 2

\* The outcomes of run_to_tip that are an Err returned to the caller.
ErrKinds == {"collaborator_err", "checkpoint_mismatch", "batch_start_mismatch"}

MaxOf(S) == CHOOSE x \in S : \A y \in S : y <= x

\* C13: when a collaborator call, apply_batch, the matcher or the block
\* decoding fails during run_to_tip, the run returns an error, makes no
\* further collaborator call, and the Store holds exactly what was persisted
\* before the failing step; a later run resumes Phase A at the persisted
\* cf_tip height + 1 and Phase B at the persisted last_scanned + 1.
C13_FailureKeepsProgress ==
    /\ [][(/\ pc = "get_cfheaders"
           /\ run'.n_cfheaders > run.n_cfheaders
           /\ apply_batch(cfchain, run'.rx.start_height, run'.rx.headers,
                          checkpoints, FALSE).err # "ok")
          => (/\ pc' = "done"
              /\ result'.kind \in ErrKinds
              /\ store' = store)]_vars
    /\ [][(pc \in CallPcs /\ pc' = "done" /\ result'.kind \in ErrKinds)
          => (/\ store' = store
              /\ fed_store' = fed_store
              /\ run'.calls = run.calls \cup {pc})]_vars
    /\ [][pc = "done"
          => (pc' = "idle" /\ store' = store /\ run'.calls = {})]_vars
    /\ []((pc = "done" /\ result.kind \in ErrKinds)
          => (/\ store.last_scanned =
                   IF run.persisted = {} THEN run.store0.last_scanned
                   ELSE MaxOf(run.persisted)
              /\ run.unsaved = <<>> /\ run.n_cfheaders = 0
                   => store.cf_tip = run.store0.cf_tip))
    /\ []((pc \in {"hash_at_stop", "get_cfheaders"} /\ run.n_cfheaders = 0)
          => next = CfTipHeight(run.store0) + 1)
    /\ []((pc \in ScanPcs /\ run.persisted = {})
          => h = run.store0.last_scanned + 1)

\* C13 witness: get_block failed after the run had persisted a cf_tip and a
\* scanned height; the Store keeps both.
C13_Witness ==
    /\ pc = "done"
    /\ result.kind = "collaborator_err"
    /\ result.at = "get_block"
    /\ run.persisted # {}
    /\ store.last_scanned = result.h - 1
    /\ store.cf_tip # run.store0.cf_tip

\* The whole run of digests applied to the chain of the persisted tip in a
\* single apply_batch call.
SingleBatch ==
    apply_batch(new_from_store(store.cf_tip), batch.start_height,
                batch.headers, checkpoints, FALSE)

\* C14: for digests F_1..F_n and a checkpoint set for which the single-batch
\* call succeeds, applying them as n consecutive one-header batches, or as
\* any split into contiguous non-empty batches, succeeds at every call and
\* yields the same final (tip_height, tip_hash) as the single apply_batch.
C14_SplitEquivalence ==
    (pc = "split" /\ SingleBatch.err = "ok")
    => (/\ result.kind \in {"none", "ok"}
        /\ Len(fed) = Len(batch.headers) => cfchain = ChainOf(SingleBatch))

\* C14 witness: three digests went through a checkpoint in two or more
\* batches on top of a persisted tip, and the single batch succeeds too.
C14_Witness ==
    /\ pc = "split"
    /\ SingleBatch.err = "ok"
    /\ Len(batch.headers) >= 2
    /\ Len(fed) = Len(batch.headers)
    /\ Len(run.unsaved) >= 2
    /\ checkpoints # <<>>
    /\ checkpoints[1][1] >= batch.start_height
    /\ store.cf_tip # None

\* C15 as stated: when tip_height is u32::MAX, apply_batch with non-empty
\* headers returns the batch-start mismatch error for every start_height,
\* u32::MAX included, and leaves the state unchanged, so that no height is
\* folded there and none wraps around.
C15_EdgeRejected ==
    [][(/\ pc = "edge"
        /\ cfchain.tip_height = U32_MAX
        /\ batch'.headers # <<>>)
       => (/\ result'.kind = "batch_start_mismatch"
           /\ cfchain' = cfchain
           /\ folded' = folded)]_vars

\* C20: a CfHeaderChain initialized from a persisted tip (0, hash), whatever
\* the hash, has state (0, all-zero hash), the same as one initialized from
\* an absent tip; initialized from (h, hash) with h > 0 it has state
\* (h, hash).
C20_NewFromStore ==
    [][pc = "new"
       => (/\ new_from_store(None) = [tip_height |-> 0, tip_hash |-> AllZeros]
           /\ cfchain' =
                IF store.cf_tip # None /\ store.cf_tip[1] > 0
                THEN [tip_height |-> store.cf_tip[1],
                      tip_hash |-> store.cf_tip[2]]
                ELSE new_from_store(None))]_vars

\* C20 witness: a chain was built from a persisted tip at height 0 whose
\* hash is not the all-zero one.
C20_Witness ==
    /\ pc = "edge"
    /\ result.kind = "none"
    /\ store.cf_tip # None
    /\ store.cf_tip[1] = 0
    /\ store.cf_tip[2] # AllZeros
    /\ cfchain = [tip_height |-> 0, tip_hash |-> AllZeros]

\* The queries every run_to_tip starts with.
InitialQueries == {"load_cf_tip", "tip_height", "get_last_scanned", "watchlist"}

\* A run over an empty Store with tip_height() = 0 and an empty watchlist
\* has returned ok.
EmptyCatchUpDone ==
    /\ pc = "done"
    /\ result.kind = "ok"
    /\ run.store0 = EmptyStore
    /\ run.tip = 0
    /\ run.watch = "empty"

\* C16 as stated: with tip_height() = 0, an empty Store and an empty
\* watchlist, run_to_tip returns ok with last_scanned 0 and makes no
\* collaborator call other than load_cf_tip, tip_height, get_last_scanned
\* and watchlist: no Store setter, no FilterSource call, no hash_at_height.
C16_OnlyInitialQueries ==
    EmptyCatchUpDone
    => (/\ store.last_scanned = 0
        /\ run.calls \subseteq InitialQueries)

\* C16 amended: with tip_height() = 0, an empty Store and an empty
\* watchlist, run_to_tip returns ok with last_scanned 0 and cf_tip absent,
\* and its collaborator calls are load_cf_tip, tip_height, get_last_scanned,
\* watchlist and, last, the Store setter set_last_scanned(0); it makes no
\* save_cf_tip, no FilterSource call and no hash_at_height call.
C16_EmptyCatchUp ==
    EmptyCatchUpDone
    => (/\ store = EmptyStore
        /\ run.calls = InitialQueries \cup {"set_last_scanned_end"}
        /\ result.at = "set_last_scanned_end"
        /\ run.n_cfheaders = 0
        /\ run.n_cfilter = 0
        /\ run.n_block = 0
        /\ run.n_match = 0)

\* C16 witness: the first run of an engine, over an empty Store, returned ok
\* with tip_height() = 0 and an empty watchlist.
C16_Witness ==
    /\ EmptyCatchUpDone
    /\ run.prev_ok_tip = -1
    /\ fed_store = <<>>
    /\ "watchlist" \in run.calls

\* A step of the pending call that is neither its failure nor a
\* cancellation: the call returned ok.
CallReturnsOk == ~(pc' = "done" /\ result'.kind \in ErrKinds \cup {"cancelled"})

\* C17: in Phase A, save_cf_tip is invoked once after each successful
\* apply_batch and before the next get_cfheaders, with exactly the
\* in-memory (tip_height, tip_hash); the Store never receives a cf_tip from
\* a batch whose apply_batch returned an error.  In Phase B,
\* set_last_scanned is invoked once per scanned height.
C17_PersistEachStep ==
    /\ [][(pc = "get_cfheaders" /\ CallReturnsOk)
          => (/\ pc' = "save_cf_tip"
              /\ apply_batch(cfchain, batch'.start_height, batch'.headers,
                             checkpoints, FALSE).err = "ok"
              /\ store' = store)]_vars
    /\ [][pc' = "save_cf_tip" => pc \in {"get_cfheaders", "save_cf_tip"}]_vars
    /\ [][(pc = "save_cf_tip" /\ CallReturnsOk)
          => (/\ store'.cf_tip = Some(cfchain.tip_height, cfchain.tip_hash)
              /\ run'.unsaved = <<>>
              /\ pc' \in {"hash_at_stop", "get_last_scanned"})]_vars
    /\ [][pc' = "get_cfheaders"
          => (/\ pc \in {"hash_at_stop", "get_cfheaders"}
              /\ run.unsaved = <<>>
              /\ store.cf_tip = None \/
                   store.cf_tip = Some(cfchain.tip_height, cfchain.tip_hash)
              /\ store.cf_tip = None => cfchain.tip_height = 0)]_vars
    /\ [][store'.cf_tip # store.cf_tip => pc = "save_cf_tip"]_vars
    /\ [][(pc = "set_last_scanned" /\ CallReturnsOk)
          => (/\ h \notin run.persisted
              /\ h \in run.tested
              /\ run'.persisted = run.persisted \cup {h}
              /\ store'.last_scanned = h)]_vars
    /\ [][(pc \in CallPcs /\ run'.persisted # run.persisted)
          => pc = "set_last_scanned"]_vars
    /\ [](/\ run.persisted \subseteq run.tested
          /\ Cardinality(run.tested \ run.persisted) <= 1
          /\ (pc = "done" /\ result.kind = "ok") => run.persisted = run.tested)

\* C17 witness: the second batch of a run failed its checkpoint after part
\* of it was folded in memory; the Store holds the tip saved after the
\* first batch.
C17_Witness ==
    /\ pc = "done"
    /\ result.kind = "checkpoint_mismatch"
    /\ run.n_cfheaders >= 2
    /\ run.unsaved # <<>>
    /\ store.cf_tip # run.store0.cf_tip
    /\ store.cf_tip = Some(Len(fed_store), RollingHash(AllZeros, fed_store))

\* C18 as stated: whenever run_to_tip leaves Phase A and enters Phase B, the
\* in-memory tip_height equals chain_tip, the value tip_height() returned at
\* the start of that run.
C18_TipEqualsChainTip ==
    pc = "get_last_scanned" => cfchain.tip_height = chain_tip

\* C18 amended: whenever run_to_tip leaves Phase A and enters Phase B, the
\* in-memory tip_height is at least chain_tip, the value tip_height()
\* returned at the start of that run (above it when the persisted cf_tip
\* already was, or when a batch reached past chain_tip); the Phase-A loop
\* body runs exactly while tip_height.saturating_add(1) <= chain_tip.
C18_TipReachesChainTip ==
    /\ [](pc = "get_last_scanned"
          => (/\ chain_tip = run.tip
              /\ cfchain.tip_height >= chain_tip
              /\ SatAdd1(cfchain.tip_height) > chain_tip))
    /\ [](pc \in {"hash_at_stop", "get_cfheaders"}
          => (/\ chain_tip = run.tip
              /\ next = SatAdd1(cfchain.tip_height)
              /\ next <= chain_tip))
    /\ [][(pc \in {"tip_height", "save_cf_tip"} /\ CallReturnsOk)
          => (/\ pc' \in {"hash_at_stop", "get_last_scanned"}
              /\ pc' = "hash_at_stop"
                   <=> SatAdd1(cfchain'.tip_height) <= chain_tip')]_vars
    /\ [][pc' = "get_last_scanned"
          => pc \in {"tip_height", "save_cf_tip", "get_last_scanned"}]_vars

\* C18 witness: Phase B is entered without a cfheaders request because the
\* persisted cf_tip is above the header tip.
C18_Witness ==
    /\ pc = "get_last_scanned"
    /\ run.n_cfheaders = 0
    /\ chain_tip >= 1
    /\ cfchain.tip_height > chain_tip

\* The calls of Phase B that follow watchlist().
ScanCalls == {"hash_at_height", "get_cfilter", "get_block", "on_block_match",
              "set_last_scanned", "set_last_scanned_end"}

\* The pcs of Phase A.
PhaseAPcs == {"load_cf_tip", "tip_height", "hash_at_stop", "get_cfheaders",
              "save_cf_tip"}

\* C19: watchlist() is called once in every run that completes Phase A (and
\* whose get_last_scanned, the call before it, returns ok), after the last
\* save_cf_tip of the run and before any get_cfilter; no get_cfilter,
\* get_block or on_block_match call precedes the end of Phase A.
C19_WatchlistOnce ==
    /\ [][(pc = "get_last_scanned" /\ CallReturnsOk) => pc' = "watchlist"]_vars
    /\ [][pc' = "watchlist" => pc \in {"get_last_scanned", "watchlist"}]_vars
    /\ [][(pc = "watchlist" /\ CallReturnsOk)
          => (/\ "watchlist" \in run'.calls
              /\ pc' \in {"set_last_scanned_end", "hash_at_height", "done"})]_vars
    /\ [](pc \in PhaseAPcs \cup {"get_last_scanned", "watchlist"}
          => (/\ "watchlist" \notin run.calls
              /\ run.calls \cap ScanCalls = {}
              /\ run.n_cfilter = 0 /\ run.n_block = 0 /\ run.n_match = 0))
    /\ [](pc \in {"get_last_scanned", "watchlist"} => run.unsaved = <<>>)
    /\ [](pc \in ScanPcs \cup {"set_last_scanned_end"}
          => (/\ "watchlist" \in run.calls
              /\ run.watch # "unknown"))
    /\ []((pc = "done" /\ result.kind = "ok") => "watchlist" \in run.calls)
    /\ [](run.calls \cap ScanCalls # {} => "watchlist" \in run.calls)

\* C19 witness: a run that saved two cfheaders batches asked for the
\* watchlist and has requested its first filter.
C19_Witness ==
    /\ pc = "get_block"
    /\ run.n_cfheaders >= 2
    /\ "save_cf_tip" \in run.calls
    /\ "watchlist" \in run.calls
    /\ run.n_cfilter = 1

\* C21: on a file, a new SqliteStore answers load_cf_tip with None and
\* get_last_scanned with 0; after save_cf_tip(h, x) a load_cf_tip that no
\* save_cf_tip overlaps returns Some((h, x)), and after set_last_scanned(h)
\* get_last_scanned returns h: the value of the last write to that key,
\* whatever was written to the other keys in between.
C21_RoundTrip ==
    /\ (reply.op = "load_cf_tip" /\ reply.saves = 0)
          => reply.ret = Ok(wrote.cf_tip)
    /\ reply.op = "get_last_scanned"
          => reply.ret = Ok(IF wrote.last_scanned = None THEN 0
                            ELSE wrote.last_scanned[1])

\* A load_cf_tip returned the top height and a two-digit hash, written after
\* another tip and with last_scanned and birth_height set as well.
C21_Witness ==
    /\ reply.op = "load_cf_tip"
    /\ reply.saves = 0
    /\ reply.ret = Ok(Some(U32_MAX, ZeroChainHash(4)))
    /\ wrote.last_scanned = <<7>>
    /\ wrote.birth_height # None

\* C22 as stated: get_birth_height returns None before any set_birth_height
\* and Some(h) after set_birth_height(h), for every h, 0 included.
C22_BirthHeightAnyValue ==
    reply.op = "get_birth_height" => reply.ret = Ok(wrote.birth_height)

\* C22: get_birth_height returns None before any set_birth_height, Some(h)
\* after set_birth_height(h) with h >= 1, and None after set_birth_height(0):
\* a stored 0 reads as no birth height.
C22_BirthHeight ==
    reply.op = "get_birth_height"
      => reply.ret = Ok(IF wrote.birth_height = None \/ wrote.birth_height = <<0>>
                        THEN None
                        ELSE wrote.birth_height)

\* get_birth_height returned None although set_birth_height(0) was the last
\* write to the key and its row holds the text of 0.
C22_Witness ==
    /\ reply.op = "get_birth_height"
    /\ wrote.birth_height = <<0>>
    /\ reply.ret = Ok(None)
    /\ table["birth_height"] = <<to_string(0)>>

\* C27: a load_cf_tip during which one save_cf_tip(h2, x2) replaced a stored
\* (h1, x1) returns (h1, x1) or (h2, x2), never a pair mixed from the two.
C27_NoMixedPair ==
    (reply.op = "load_cf_tip" /\ reply.saves = 1 /\ reply.before # None)
      => reply.ret \in {Ok(reply.before), Ok(wrote.cf_tip)}

\* The calls of the Phase-A loop.
LoopPcs == {"hash_at_stop", "get_cfheaders", "save_cf_tip"}

\* apply_batch has accepted a zero-length batch: the tip has not moved.
Stalling == pc = "save_cf_tip" /\ batch.headers = <<>>

C24_PartialProgress ==
    [][result'.kind = "checkpoint_mismatch"
         => LET i == result'.h - batch'.start_height
            IN  /\ i \in 0..(Len(batch'.headers) - 1)
                /\ cfchain'.tip_height = result'.h - 1
                /\ cfchain'.tip_hash
                     = RollingHash(cfchain.tip_hash,
                                   SubSeq(batch'.headers, 1, i))
                /\ folded' = folded \o [j \in 1..i |->
                                           batch'.start_height + j - 1]
                /\ fed' = fed \o SubSeq(batch'.headers, 1, i)
                /\ (i = 0 => cfchain' = cfchain)]_vars

\* A batch from height 2 failed at its second header: the chain stands at
\* the height of its first header, one above where the call found it.
C24_Witness ==
    /\ result.kind = "checkpoint_mismatch"
    /\ batch.start_height = 2
    /\ result.h = batch.start_height + 1
    /\ cfchain.tip_height = batch.start_height
    /\ folded = <<1, 2>>

\* C25 as stated: every height passed to hash_at_height in a run, as a
\* Phase-A stop height or as a Phase-B scan height, lies in 1..chain_tip.
C25_WithinChainTip ==
    /\ pc = "get_cfheaders" => (1 <= stop_h /\ stop_h <= chain_tip)
    /\ pc = "hash_at_height" => (1 <= h /\ h <= chain_tip)

\* C25: every Phase-A stop height passed to hash_at_height lies in
\* next..chain_tip with next >= 1; every Phase-B scan height h passed to it
\* lies in last_scanned + 1 .. tip_height of the in-memory chain, which may
\* be above chain_tip.
C25_RequestedHeights ==
    /\ pc = "hash_at_stop" => (1 <= next /\ next <= chain_tip)
    /\ pc = "get_cfheaders"
         => (1 <= next /\ next <= stop_h /\ stop_h <= chain_tip)
    /\ pc = "hash_at_height"
         => /\ 1 <= last_scanned + 1
            /\ last_scanned + 1 <= h
            /\ h <= end_h
            /\ end_h = cfchain.tip_height

\* After a batch of this run took the chain past the header tip, the scan
\* is about to ask for the hash at a height above chain_tip.
C25_Witness ==
    /\ pc = "hash_at_height"
    /\ h > chain_tip
    /\ "get_cfheaders" \in run.calls
    /\ CfTipHeight(run.store0) < chain_tip

\* The checkpoints of cps at the heights of the batch b.
InBatch(cps, b) ==
    SelectSeq(cps, LAMBDA c :
        c[1] \in b.start_height..(b.start_height + Len(b.headers) - 1))

\* C26: apply_batch gives the same result, and the run the same outcome,
\* with the installed checkpoints as with only those at the heights of the
\* batch; a run reports a checkpoint mismatch only at a height of the batch
\* it applied, above the cf_tip height it loaded, so a checkpoint at or
\* below that height (one contradicting the persisted tip included) is
\* never compared.
C26_CheckpointOutsideBatch ==
    /\ [][pc = "get_cfheaders"
            => LET b == run'.rx
                   all == apply_batch(cfchain, b.start_height, b.headers,
                                      checkpoints, FALSE)
                   inb == apply_batch(cfchain, b.start_height, b.headers,
                                      InBatch(checkpoints, b), FALSE)
               IN  /\ all = inb
                   /\ pc' = "save_cf_tip" => cfchain' = ChainOf(inb)
                   /\ result'.kind \in {"checkpoint_mismatch",
                                         "batch_start_mismatch"}
                        => (result'.kind = inb.err /\ result'.h = inb.err_h)]_vars
    /\ []((pc = "done" /\ result.kind = "checkpoint_mismatch")
            => /\ result.h > CfTipHeight(run.store0)
               /\ result.h \in run.rx.start_height
                                ..(run.rx.start_height + Len(run.rx.headers) - 1))

\* A run that found a persisted cf_tip (h, x), with a checkpoint (h, y),
\* y # x, installed, applied a batch and returned ok.
C26_Witness ==
    /\ pc = "done"
    /\ result.kind = "ok"
    /\ "save_cf_tip" \in run.calls
    /\ checkpoints # <<>>
    /\ run.store0.cf_tip # None
    /\ checkpoints[1][1] = run.store0.cf_tip[1]
    /\ checkpoints[1][2] # run.store0.cf_tip[2]

\* C28: over any sequence of runs on one Store, from the empty Store on
\* (where last_scanned <= cf_tip height), whether they return ok, fail or
\* are cancelled and whatever watchlist and header tip each one meets, no
\* step lowers the persisted cf_tip height or the persisted last_scanned.
C28_NeverDecrease ==
    [][/\ CfTipHeight(store') >= CfTipHeight(store)
       /\ store'.last_scanned >= store.last_scanned]_vars

\* A run that met a header tip below the persisted cf_tip height raised
\* last_scanned above the height it found, left by an earlier run that had
\* not finished its scan, and then failed or was cancelled.
C28_Witness ==
    /\ pc = "done"
    /\ result.kind \in {"collaborator_err", "cancelled"}
    /\ run.tip >= 0
    /\ run.tip < CfTipHeight(run.store0)
    /\ store.last_scanned > run.store0.last_scanned
    /\ run.store0.last_scanned >= 1

====
